---- MODULE Spec2Model ----
(***************************************************************************)
(* A model of src/rendering/opengl/gl_object.rs: the GlOject drawable, its *)
(* constructor, bind, draw, update, set_drawing_mode, drawing_mode and     *)
(* Drop, run against a model of the part of the OpenGL context those       *)
(* handlers touch (object names, the bound vertex array, the buffer        *)
(* bindings, the element-array binding that lives inside each vertex       *)
(* array object).                                                          *)
(***************************************************************************)
EXTENDS Integers, Sequences, FiniteSets, TLC

\* ------------------------------------------------------------------ bounds
\* Largest number of vertex records in a source.
MaxVerts == 3
\* Largest "small" number of indices in a source (wrapping lengths are added
\* to these in IndexLens).
MaxIdx == 2
\* Size of the pool of GL object names.
MaxName == 4
\* size_of::<T>() of the generic vertex record type.
SizeOfT == 12

\* ------------------------------------------------------- program constants
\* i32::MAX, the largest GLint.
GLintMax == 2147483647
\* size_of::<GLuint>()
SizeOfGLuint == 4
\* The fixed vertex count of the non-indexed draw.
ArrayDrawCount == 3
Drawables == {"A", "B"}

\* DrawingMode, the eleven variants of the enum.
DrawingMode ==
    {"Points", "Lines", "LineLoop", "LineStrip", "Triangles", "TriangleStrip",
     "TriangleFan", "LinesAdjacency", "LineStripAdjacency", "TrianglesAdjacency",
     "TrianglesStripAdjacency"}

\* `mode as u32`: the discriminants the enum takes from the gl constants.
ModeAsU32(mode) ==
    CASE mode = "Points" -> 0
      [] mode = "Lines" -> 1
      [] mode = "LineLoop" -> 2
      [] mode = "LineStrip" -> 3
      [] mode = "Triangles" -> 4
      [] mode = "TriangleStrip" -> 5
      [] mode = "TriangleFan" -> 6
      [] mode = "LinesAdjacency" -> 10
      [] mode = "LineStripAdjacency" -> 11
      [] mode = "TrianglesAdjacency" -> 12
      [] mode = "TrianglesStripAdjacency" -> 13

\* ----------------------------------------------------------------- lengths
\* A Vec length (usize) is written hi * 2^31 + lo with 0 <= lo < 2^31, so that
\* lengths beyond the range of a GLint can be stated with 32-bit arithmetic.
VecLen(hi, lo) == [hi |-> hi, lo |-> lo]

\* `len as GLint`: the cast keeps the low 32 bits and reads them as signed.
AsGLint(len) == IF len.hi % 2 = 0 THEN len.lo ELSE (len.lo - GLintMax) - 1

\* The lengths of index sequences the model draws from.
IndexLens ==
    {VecLen(0, lo) : lo \in 0..MaxIdx}
        \cup {VecLen(0, GLintMax), VecLen(1, 0), VecLen(2, 1)}

\* The numbers of vertex records the model draws from.
VertLens == {0, MaxVerts}

\* VertexBuffer<T>: Array(verts) or Indexed(verts, indices), by lengths.
ArraySrc(n) == [kind |-> "Array", n |-> n, m |-> VecLen(0, 0)]
IndexedSrc(n, m) == [kind |-> "Indexed", n |-> n, m |-> m]

\* The source a handler was given, as a value of its own (the variant and the
\* two lengths).
Own(src) == [kind |-> src.kind, n |-> src.n, m |-> VecLen(src.m.hi, src.m.lo)]

\* ------------------------------------------------------- the GL context
\* One GL call: f the entry point, target the buffer target (or index type),
\* a the name / mode / location / element size, n the element count.
Call(f, target, a, n) == [f |-> f, target |-> target, a |-> a, n |-> n]

NoLen == VecLen(0, 0)

Names == 0..MaxName

\* The data store of a buffer: its element size and element count.
Store(sz, n) == [sz |-> sz, n |-> n]

\* A buffer without a data store.
NoStore == Store(0, NoLen)

\* The context after its creation: no names in use, nothing bound.
GlInit(profile) ==
    [profile |-> profile,
     vaoNames |-> {}, bufNames |-> {},
     boundVao |-> 0, arrayBuf |-> 0,
     elemBuf |-> [v \in Names |-> 0],
     attribBuf |-> [v \in Names |-> 0],
     store |-> [b \in Names |-> NoStore]]

\* A name GenVertexArrays may return: one that is not in use.
FreshVao(g) == CHOOSE v \in 1..MaxName : v \notin g.vaoNames /\ \A w \in 1..MaxName : (w \notin g.vaoNames) => v <= w

\* A name GenBuffers may return: one that is not in use and that no vertex
\* array still refers to (a deleted buffer stays attached to the vertex arrays
\* that were not bound when it was deleted).
BufFree(g, b) ==
    /\ b \notin g.bufNames
    /\ \A v \in Names : g.elemBuf[v] # b /\ g.attribBuf[v] # b

FreshBuf(g) == CHOOSE b \in 1..MaxName : BufFree(g, b) /\ \A c \in 1..MaxName : BufFree(g, c) => b <= c

\* No vertex array object is usable: the core profile has no default one.
NoVao(g) == g.profile = "core" /\ g.boundVao = 0

\* The buffer a call on `target` reaches.
Bound(g, target) ==
    IF target = "ARRAY_BUFFER" THEN g.arrayBuf
    ELSE IF NoVao(g) THEN 0 ELSE g.elemBuf[g.boundVao]

\* The effect of one GL call on the context: the context after it, whether
\* it raised a GL error, whether its behaviour is undefined, and the object
\* it read or wrote (res).
GlStep(g, c) ==
    CASE c.f = "GenVertexArrays" ->
            [g |-> [g EXCEPT !.vaoNames = @ \cup {c.a}], err |-> FALSE, ub |-> FALSE, res |-> c.a]
      [] c.f = "GenBuffers" ->
            [g |-> [g EXCEPT !.bufNames = @ \cup {c.a}], err |-> FALSE, ub |-> FALSE, res |-> c.a]
      [] c.f = "BindVertexArray" ->
            IF c.a = 0 \/ c.a \in g.vaoNames
            THEN [g |-> [g EXCEPT !.boundVao = c.a], err |-> FALSE, ub |-> FALSE, res |-> c.a]
            ELSE [g |-> g, err |-> TRUE, ub |-> FALSE, res |-> 0]
      [] c.f = "BindBuffer" ->
            IF c.target = "ARRAY_BUFFER"
            THEN [g |-> [g EXCEPT !.arrayBuf = c.a], err |-> FALSE, ub |-> FALSE, res |-> c.a]
            ELSE IF NoVao(g)
                 THEN [g |-> g, err |-> TRUE, ub |-> FALSE, res |-> 0]
                 ELSE [g |-> [g EXCEPT !.elemBuf[g.boundVao] = c.a],
                       err |-> FALSE, ub |-> FALSE, res |-> c.a]
      [] c.f = "BufferData" ->
            \* a new data store for the buffer bound to the target.
            IF Bound(g, c.target) = 0
            THEN [g |-> g, err |-> TRUE, ub |-> FALSE, res |-> 0]
            ELSE [g |-> [g EXCEPT !.store[Bound(g, c.target)] = Store(c.a, c.n)],
                  err |-> FALSE, ub |-> FALSE, res |-> Bound(g, c.target)]
      [] c.f = "VertexAttribPointer" ->
            \* a location that was not found (-1) is no attribute index.
            IF c.a < 0 \/ NoVao(g)
            THEN [g |-> g, err |-> TRUE, ub |-> FALSE, res |-> 0]
            ELSE [g |-> [g EXCEPT !.attribBuf[g.boundVao] = g.arrayBuf],
                  err |-> FALSE, ub |-> FALSE, res |-> g.arrayBuf]
      [] c.f = "EnableVertexAttribArray" ->
            [g |-> g, err |-> c.a < 0 \/ NoVao(g), ub |-> FALSE, res |-> 0]
      [] c.f = "DrawElements" ->
            \* indices are read from the element buffer of the bound vertex
            \* array; with none attached the null offset is an error (core)
            \* or a read through a null client pointer (compatibility).
            [g |-> g,
             err |-> NoVao(g) \/ (g.profile = "core" /\ Bound(g, "ELEMENT_ARRAY_BUFFER") = 0),
             ub |-> g.profile = "compat" /\ Bound(g, "ELEMENT_ARRAY_BUFFER") = 0,
             res |-> Bound(g, "ELEMENT_ARRAY_BUFFER")]
      [] c.f = "DrawArrays" ->
            [g |-> g, err |-> NoVao(g), ub |-> FALSE,
             res |-> IF NoVao(g) THEN 0 ELSE g.attribBuf[g.boundVao]]
      [] c.f = "DeleteBuffers" ->
            \* the name is freed; the bindings of the context and of the
            \* bound vertex array that named it revert to zero.
            IF c.a \in g.bufNames
            THEN [g |-> [g EXCEPT !.bufNames = @ \ {c.a},
                                  !.store[c.a] = NoStore,
                                  !.arrayBuf = IF @ = c.a THEN 0 ELSE @,
                                  !.elemBuf[g.boundVao] = IF @ = c.a THEN 0 ELSE @],
                  err |-> FALSE, ub |-> FALSE, res |-> c.a]
            ELSE [g |-> g, err |-> FALSE, ub |-> FALSE, res |-> 0]
      [] c.f = "DeleteVertexArrays" ->
            IF c.a \in g.vaoNames
            THEN [g |-> [g EXCEPT !.vaoNames = @ \ {c.a},
                                  !.boundVao = IF @ = c.a THEN 0 ELSE @,
                                  !.elemBuf[c.a] = 0,
                                  !.attribBuf[c.a] = 0],
                  err |-> FALSE, ub |-> FALSE, res |-> c.a]
            ELSE [g |-> g, err |-> FALSE, ub |-> FALSE, res |-> 0]

\* What the log keeps of an executed call.
Entry(c, r) ==
    [f |-> c.f, target |-> c.target, a |-> c.a, n |-> c.n, res |-> r.res, err |-> r.err, ub |-> r.ub]

\* gl_check!(call) for each call of a handler in turn: the call is made and
\* its error, if any, is surfaced; when the build makes that fatal the
\* handler ends there.
RECURSIVE RunCalls(_, _, _)
RunCalls(g, calls, fatal) ==
    IF calls = <<>>
    THEN [g |-> g, log |-> <<>>, failed |-> FALSE]
    ELSE LET r == GlStep(g, Head(calls))
             e == Entry(Head(calls), r)
         IN  IF r.err /\ fatal
             THEN [g |-> r.g, log |-> <<e>>, failed |-> TRUE]
             ELSE LET rest == RunCalls(r.g, Tail(calls), fatal)
                  IN  [g |-> rest.g, log |-> <<e>> \o rest.log, failed |-> rest.failed]

\* ------------------------------------------------------------- the state
VARIABLES
    status,        \* per drawable: "none", "live" (constructed), "dropped"
    vao,           \* GlOject.vao
    vbo,           \* GlOject.vbo
    ebo,           \* GlOject.ebo
    index_count,   \* GlOject.index_count
    drawing_mode,  \* GlOject.drawing_mode
    programRefs,   \* strong count of the shared Rc<ShaderProgram>
    gl,            \* the GL context
    checkFatal,    \* whether gl_check! ends the handler on a GL error
    failed,        \* the thread is panicking
    lastOp,        \* the handler that ran last, with its arguments
    lastCalls,     \* the GL calls that handler made, in order
    everIndexed,   \* history: constructed from, or updated with, Indexed
    lastSetMode    \* history: the mode of the latest set_drawing_mode

vars ==
    <<status, vao, vbo, ebo, index_count, drawing_mode, programRefs, gl,
      checkFatal, failed, lastOp, lastCalls, everIndexed, lastSetMode>>

fields == <<vao, vbo, ebo, index_count, drawing_mode>>

Op(op, o, src, mode, ok) == [op |-> op, obj |-> o, src |-> src, mode |-> mode, ok |-> ok]

\* Results of get_attribute_location: a slot, or -1 for "not found".
AttribLocations == {0, -1}

\* Vertex descriptions, by the locations their attributes resolve to.
Descs == {<<>>} \cup {<<l>> : l \in AttribLocations}

Init ==
    /\ status = [o \in Drawables |-> "none"]
    /\ vao = [o \in Drawables |-> 0]
    /\ vbo = [o \in Drawables |-> 0]
    /\ ebo = [o \in Drawables |-> 0]
    /\ index_count = [o \in Drawables |-> 0]
    /\ drawing_mode = [o \in Drawables |-> "Triangles"]
    /\ programRefs = 1
    /\ \E profile \in {"core", "compat"} : gl = GlInit(profile)
    /\ checkFatal \in BOOLEAN
    /\ failed = FALSE
    /\ lastOp = Op("init", "A", ArraySrc(0), "Triangles", TRUE)
    /\ lastCalls = <<>>
    /\ everIndexed = [o \in Drawables |-> FALSE]
    /\ lastSetMode = [o \in Drawables |-> "Triangles"]

\* ----------------------------------------------------------- the handlers
\* setup_vertex_objects(&mut vao, &mut vbo, v)
setup_vertex_objects(va, vb, n) ==
    << Call("GenVertexArrays", "", va, NoLen),
       Call("BindVertexArray", "", va, NoLen),
       Call("GenBuffers", "", vb, NoLen),
       Call("BindBuffer", "ARRAY_BUFFER", vb, NoLen),
       Call("BufferData", "ARRAY_BUFFER", SizeOfT, VecLen(0, n)) >>

\* setup_element_objects(&mut ebo, indices)
setup_element_objects(eb, m) ==
    << Call("GenBuffers", "", eb, NoLen),
       Call("BindBuffer", "ELEMENT_ARRAY_BUFFER", eb, NoLen),
       Call("BufferData", "ELEMENT_ARRAY_BUFFER", SizeOfGLuint, m) >>

\* setup_attrib_pointer(&vertices.desc, &program)
RECURSIVE setup_attrib_pointer(_)
setup_attrib_pointer(descs) ==
    IF descs = <<>> THEN <<>>
    ELSE << Call("VertexAttribPointer", "", Head(descs), NoLen),
            Call("EnableVertexAttribArray", "", Head(descs), NoLen) >>
         \o setup_attrib_pointer(Tail(descs))

\* The GL calls of GlOject::new, in order.
NewCalls(va, vb, eb, src, descs) ==
    IF src.kind = "Array"
    THEN setup_vertex_objects(va, vb, src.n) \o setup_attrib_pointer(descs)
    ELSE setup_vertex_objects(va, vb, src.n) \o setup_element_objects(eb, src.m)
         \o setup_attrib_pointer(descs)

\* GlOject::new(vertices, program)
New(o, src, descs) ==
    /\ status[o] = "none"
    /\ ~failed
    /\ LET s == Own(src)
           va == FreshVao(gl)
           vb == FreshBuf(gl)
           eb == FreshBuf([gl EXCEPT !.bufNames = @ \cup {vb}])
           run == RunCalls(gl, NewCalls(va, vb, eb, s, descs), checkFatal)
       IN  /\ gl' = run.g
           /\ lastCalls' = run.log
           /\ failed' = run.failed
           /\ lastOp' = Op("new", o, s, "Triangles", ~run.failed)
           /\ IF run.failed
              THEN \* the panic leaves new() before the value is built
                   UNCHANGED <<status, vao, vbo, ebo, index_count, drawing_mode,
                               programRefs, everIndexed, lastSetMode>>
              ELSE /\ status' = [status EXCEPT ![o] = "live"]
                   /\ vao' = [vao EXCEPT ![o] = va]
                   /\ vbo' = [vbo EXCEPT ![o] = vb]
                   /\ ebo' = [ebo EXCEPT ![o] = IF s.kind = "Indexed" THEN eb ELSE 0]
                   /\ index_count' =
                        [index_count EXCEPT ![o] = IF s.kind = "Indexed" THEN AsGLint(s.m) ELSE 0]
                   /\ drawing_mode' = [drawing_mode EXCEPT ![o] = "Triangles"]
                   /\ programRefs' = programRefs + 1
                   /\ everIndexed' = [everIndexed EXCEPT ![o] = (s.kind = "Indexed")]
                   /\ lastSetMode' = [lastSetMode EXCEPT ![o] = "Triangles"]
    /\ UNCHANGED checkFatal

\* The GL calls of GlOject::bind.
BindCalls(o) ==
    IF vao[o] > 0 THEN << Call("BindVertexArray", "", vao[o], NoLen) >> ELSE <<>>

\* GlOject::bind(&self)
Bind(o) ==
    /\ status[o] = "live"
    /\ ~failed
    /\ LET run == RunCalls(gl, BindCalls(o), checkFatal)
       IN  /\ gl' = run.g
           /\ lastCalls' = run.log
           /\ failed' = run.failed
    /\ lastOp' = Op("bind", o, ArraySrc(0), drawing_mode[o], TRUE)
    /\ UNCHANGED <<status, fields, programRefs, checkFatal, everIndexed, lastSetMode>>

\* DrawCall with the non-indexed draw sized by the records last uploaded
\* instead of the fixed count.
DrawCallVertexCount(o) ==
    IF index_count[o] > 0
    THEN << Call("DrawElements", "UNSIGNED_INT", ModeAsU32(drawing_mode[o]),
                 VecLen(0, index_count[o])) >>
    ELSE << Call("DrawArrays", "", ModeAsU32(drawing_mode[o]), gl.store[vbo[o]].n) >>

\* The draw call of GlOject::draw, chosen by the recorded index count.
DrawCall(o) ==
    IF index_count[o] > 0
    THEN << Call("DrawElements", "UNSIGNED_INT", ModeAsU32(drawing_mode[o]),
                 VecLen(0, index_count[o])) >>
    ELSE << Call("DrawArrays", "", ModeAsU32(drawing_mode[o]), VecLen(0, ArrayDrawCount)) >>

\* self.program.activate(), as the log keeps it: ok is its result.
Activate(ok) ==
    [f |-> "activate", target |-> "", a |-> 0, n |-> NoLen, res |-> 0, err |-> ~ok, ub |-> FALSE]

\* DrawSteps with the result of activate() ignored instead of unwrapped.
DrawStepsNoExpect(g, o, ok, fatal) ==
    LET pre == RunCalls(g, BindCalls(o), fatal)
        post == RunCalls(pre.g, DrawCall(o), fatal)
    IN  IF pre.failed THEN pre
        ELSE [g |-> post.g, log |-> pre.log \o <<Activate(ok)>> \o post.log,
              failed |-> post.failed]

\* The steps of GlOject::draw from the context g: bind, activate the
\* program (ok is the result of activate(); expect() panics on an Err), then
\* the draw call.
DrawSteps(g, o, ok, fatal) ==
    LET pre == RunCalls(g, BindCalls(o), fatal)
        post == RunCalls(pre.g, DrawCall(o), fatal)
    IN  IF pre.failed THEN pre
        ELSE IF ~ok
        THEN [g |-> pre.g, log |-> pre.log \o <<Activate(ok)>>, failed |-> TRUE]
        ELSE [g |-> post.g, log |-> pre.log \o <<Activate(ok)>> \o post.log,
              failed |-> post.failed]

\* GlOject::draw(&self). crash is whether a draw call whose behaviour is
\* undefined kills the process.
Draw(o, ok, crash) ==
    /\ status[o] = "live"
    /\ ~failed
    /\ LET run == DrawSteps(gl, o, ok, checkFatal)
       IN  /\ gl' = run.g
           /\ lastCalls' = run.log
           /\ failed' = (run.failed \/ (crash /\ \E i \in 1..Len(run.log) : run.log[i].ub))
    /\ lastOp' = Op("draw", o, ArraySrc(0), drawing_mode[o], ok)
    /\ UNCHANGED <<status, fields, programRefs, checkFatal, everIndexed, lastSetMode>>

\* UpdateCalls with the vertex buffer generated anew before the upload.
UpdateCallsRealloc(o, src) ==
    (IF src.kind = "Indexed"
     THEN << Call("BindBuffer", "ELEMENT_ARRAY_BUFFER", ebo[o], NoLen),
             Call("BufferData", "ELEMENT_ARRAY_BUFFER", SizeOfGLuint, src.m) >>
     ELSE <<>>)
    \o << Call("GenBuffers", "", FreshBuf(gl), NoLen),
          Call("BindBuffer", "ARRAY_BUFFER", FreshBuf(gl), NoLen),
          Call("BufferData", "ARRAY_BUFFER", SizeOfT, VecLen(0, src.n)) >>

\* The GL calls of GlOject::update, in order.
UpdateCalls(o, src) ==
    (IF src.kind = "Indexed"
     THEN << Call("BindBuffer", "ELEMENT_ARRAY_BUFFER", ebo[o], NoLen),
             Call("BufferData", "ELEMENT_ARRAY_BUFFER", SizeOfGLuint, src.m) >>
     ELSE <<>>)
    \o << Call("BindBuffer", "ARRAY_BUFFER", vbo[o], NoLen),
          Call("BufferData", "ARRAY_BUFFER", SizeOfT, VecLen(0, src.n)) >>

\* GlOject::update(&mut self, vertices)
Update(o, src) ==
    /\ status[o] = "live"
    /\ ~failed
    /\ LET s == Own(src)
           run == RunCalls(gl, UpdateCalls(o, s), checkFatal)
       IN  /\ index_count' =
                [index_count EXCEPT ![o] = IF s.kind = "Indexed" THEN AsGLint(s.m) ELSE @]
           /\ gl' = run.g
           /\ lastCalls' = run.log
           /\ failed' = run.failed
           /\ lastOp' = Op("update", o, s, drawing_mode[o], TRUE)
           /\ everIndexed' = [everIndexed EXCEPT ![o] = @ \/ s.kind = "Indexed"]
    /\ UNCHANGED <<status, vao, vbo, ebo, drawing_mode, programRefs, checkFatal, lastSetMode>>

\* SetDrawingMode with the adjacency variant of the triangle strip stored as
\* the plain triangle strip.
SetDrawingModeConfused(o, mode) ==
    /\ status[o] = "live"
    /\ ~failed
    /\ drawing_mode' =
         [drawing_mode EXCEPT ![o] =
            IF mode = "TrianglesStripAdjacency" THEN "TriangleStrip" ELSE mode]
    /\ lastSetMode' = [lastSetMode EXCEPT ![o] = mode]
    /\ lastOp' = Op("set_drawing_mode", o, ArraySrc(0), mode, TRUE)
    /\ lastCalls' = <<>>
    /\ UNCHANGED <<status, vao, vbo, ebo, index_count, programRefs, gl, checkFatal,
                   failed, everIndexed>>

\* GlOject::set_drawing_mode(&mut self, mode)
SetDrawingMode(o, mode) ==
    /\ status[o] = "live"
    /\ ~failed
    /\ drawing_mode' = [drawing_mode EXCEPT ![o] = mode]
    /\ lastSetMode' = [lastSetMode EXCEPT ![o] = mode]
    /\ lastOp' = Op("set_drawing_mode", o, ArraySrc(0), mode, TRUE)
    /\ lastCalls' = <<>>
    /\ UNCHANGED <<status, vao, vbo, ebo, index_count, programRefs, gl, checkFatal,
                   failed, everIndexed>>

\* GlOject::drawing_mode(&self)
DrawingModeOf(o) == drawing_mode[o]

\* DropCalls with the array-layout resource released before the buffers.
DropCallsVaoFirst(o) ==
    (IF vao[o] > 0 THEN << Call("DeleteVertexArrays", "", vao[o], NoLen) >> ELSE <<>>)
    \o (IF vbo[o] > 0 THEN << Call("DeleteBuffers", "", vbo[o], NoLen) >> ELSE <<>>)
    \o (IF ebo[o] > 0 THEN << Call("DeleteBuffers", "", ebo[o], NoLen) >> ELSE <<>>)

\* The GL calls of Drop::drop for GlOject, in order.
DropCalls(o) ==
    (IF vbo[o] > 0 THEN << Call("DeleteBuffers", "", vbo[o], NoLen) >> ELSE <<>>)
    \o (IF ebo[o] > 0 THEN << Call("DeleteBuffers", "", ebo[o], NoLen) >> ELSE <<>>)
    \o (IF vao[o] > 0 THEN << Call("DeleteVertexArrays", "", vao[o], NoLen) >> ELSE <<>>)

\* Drop for GlOject, then the drop of its fields (the Rc gives up one
\* strong reference). It also runs while a panic unwinds.
Drop(o) ==
    /\ status[o] = "live"
    /\ LET run == RunCalls(gl, DropCalls(o), checkFatal)
       IN  /\ gl' = run.g
           /\ lastCalls' = run.log
           /\ failed' = (failed \/ run.failed)
    /\ status' = [status EXCEPT ![o] = "dropped"]
    /\ programRefs' = programRefs - 1
    /\ lastOp' = Op("drop", o, ArraySrc(0), drawing_mode[o], TRUE)
    /\ UNCHANGED <<fields, checkFatal, everIndexed, lastSetMode>>

\* --------------------------------------------------------- specifications
\* Every call a program can make on the drawables objs, its arguments drawn
\* from the given sets.
Step(objs, modes, vlens, ilens, descs) ==
    \E o \in objs :
        \/ \E n \in vlens, d \in descs : New(o, ArraySrc(n), d)
        \/ \E n \in vlens, m \in ilens, d \in descs : New(o, IndexedSrc(n, m), d)
        \/ Bind(o)
        \/ \E ok \in BOOLEAN, crash \in BOOLEAN : Draw(o, ok, crash)
        \/ \E n \in vlens : Update(o, ArraySrc(n))
        \/ \E n \in vlens, m \in ilens : Update(o, IndexedSrc(n, m))
        \/ \E mode \in modes : SetDrawingMode(o, mode)
        \/ Drop(o)

\* One drawable, every topology, every length.
Next == Step({"A"}, DrawingMode, VertLens, IndexLens, Descs)

Spec == Init /\ [][Next]_vars

\* Two drawables sharing the context and the program.
NextShared ==
    Step(Drawables, {"Lines"}, {MaxVerts}, {VecLen(0, MaxIdx)}, Descs)

SpecShared == Init /\ [][NextShared]_vars

TypeOK ==
    /\ status \in [Drawables -> {"none", "live", "dropped"}]
    /\ drawing_mode \in [Drawables -> DrawingMode]
    /\ failed \in BOOLEAN

\* ------------------------------------------------------------ properties
Live(o) == status[o] = "live"

\* The positions of the draw calls in the log of the last handler.
DrawEntries == {i \in 1..Len(lastCalls) : lastCalls[i].f \in {"DrawElements", "DrawArrays"}}

\* The positions of the uploads to `target` in the log of the last handler.
Uploads(target) ==
    {i \in 1..Len(lastCalls) : lastCalls[i].f = "BufferData" /\ lastCalls[i].target = target}

\* The entry points of the calls of the last handler, in order.
CallNames == [i \in 1..Len(lastCalls) |-> lastCalls[i].f]

\* C1: a draw() whose program activation succeeds issues exactly one draw
\* call: with a recorded index count M > 0 an indexed one of count M and index
\* type UNSIGNED_INT, with a recorded index count of 0 a non-indexed one of
\* count 3 whatever the number of vertex records; in both cases with the
\* object's current drawing mode.
C1_DrawIssuesOneCall ==
    (lastOp.op = "draw" /\ lastOp.ok) =>
        LET o == lastOp.obj IN
        /\ Cardinality(DrawEntries) = 1
        /\ \A i \in DrawEntries :
            /\ lastCalls[i].a = ModeAsU32(DrawingModeOf(o))
            /\ index_count[o] > 0 =>
                /\ lastCalls[i].f = "DrawElements"
                /\ lastCalls[i].target = "UNSIGNED_INT"
                /\ lastCalls[i].n = VecLen(0, index_count[o])
            /\ index_count[o] = 0 =>
                /\ lastCalls[i].f = "DrawArrays"
                /\ lastCalls[i].n = VecLen(0, 3)

\* C1's case: a non-indexed draw of an object whose vertex buffer holds a
\* number of records other than 3, in a topology other than the default.
C1_Witness ==
    /\ lastOp.op = "draw" /\ lastOp.ok /\ ~failed
    /\ index_count[lastOp.obj] = 0
    /\ gl.store[vbo[lastOp.obj]].n # VecLen(0, 3)
    /\ drawing_mode[lastOp.obj] = "LineStrip"
    /\ \E i \in DrawEntries : lastCalls[i].f = "DrawArrays"

\* C2 (as claimed): update with an Indexed source of M' indices sets the
\* index count to M' and uploads the indices into the object's own index-data
\* resource, then the vertex records into its vertex-data resource; update
\* with an Array source uploads only the vertex records and leaves the index
\* count as it was.
C2_UpdateAsClaimed ==
    [][lastOp'.op = "update" =>
        LET o == lastOp'.obj
            src == lastOp'.src
        IN  IF src.kind = "Indexed"
            THEN /\ src.m.hi = 0 /\ index_count'[o] = src.m.lo
                 /\ Len(lastCalls') = 4
                 /\ lastCalls'[2].f = "BufferData"
                 /\ lastCalls'[2].target = "ELEMENT_ARRAY_BUFFER"
                 /\ ebo[o] # 0 /\ lastCalls'[2].res = ebo[o]
                 /\ lastCalls'[2].n = src.m
                 /\ lastCalls'[4].f = "BufferData"
                 /\ lastCalls'[4].target = "ARRAY_BUFFER"
                 /\ lastCalls'[4].res = vbo[o]
            ELSE /\ index_count'[o] = index_count[o]
                 /\ CallNames' = <<"BindBuffer", "BufferData">>
                 /\ lastCalls'[2].target = "ARRAY_BUFFER"
                 /\ lastCalls'[2].res = vbo[o]
    ]_vars

\* C3 (as claimed): the index-data handle of a live drawable is non-zero if
\* and only if the drawable was constructed from, or has been updated with,
\* an Indexed source.
C3_EboIffEverIndexed ==
    \A o \in Drawables : Live(o) => ((ebo[o] # 0) <=> everIndexed[o])

\* C4: the calls of a drop are the release of the vertex-data buffer, then of
\* the index-data buffer if the drawable has one, then of the array-layout
\* resource; each releases a name that was still in use (none is released
\* twice or while zero), nothing else is released, and the names are free
\* afterwards.
C4_DropReleasesOnce ==
    lastOp.op = "drop" =>
        LET o == lastOp.obj
            want == <<[f |-> "DeleteBuffers", a |-> vbo[o]]>>
                    \o (IF ebo[o] # 0 THEN <<[f |-> "DeleteBuffers", a |-> ebo[o]]>> ELSE <<>>)
                    \o <<[f |-> "DeleteVertexArrays", a |-> vao[o]]>>
        IN  /\ [i \in 1..Len(lastCalls) |-> [f |-> lastCalls[i].f, a |-> lastCalls[i].a]] = want
            /\ \A i \in 1..Len(lastCalls) :
                 lastCalls[i].a # 0 /\ lastCalls[i].res = lastCalls[i].a
            /\ vbo[o] \notin gl.bufNames
            /\ ebo[o] \notin gl.bufNames
            /\ vao[o] \notin gl.vaoNames
            /\ status[o] = "dropped"

\* C4's case: a drawable with all three resources is dropped while the other
\* drawable is live.
C4_Witness ==
    /\ lastOp.op = "drop"
    /\ ebo[lastOp.obj] # 0
    /\ Len(lastCalls) = 3
    /\ \E p \in Drawables : p # lastOp.obj /\ Live(p) /\ ebo[p] # 0

\* C5 (as claimed): construction allocates one array-layout and one
\* vertex-data resource; from an Array source no index-data resource, with
\* index count 0; from an Indexed source of M indices one index-data resource
\* as well, with index count M, for any M.
C5_NewAsClaimed ==
    (lastOp.op = "new" /\ lastOp.ok) =>
        LET o == lastOp.obj
            gens(f) == Cardinality({i \in 1..Len(lastCalls) : lastCalls[i].f = f})
        IN  /\ gens("GenVertexArrays") = 1
            /\ vao[o] # 0 /\ vbo[o] # 0
            /\ IF lastOp.src.kind = "Array"
               THEN gens("GenBuffers") = 1 /\ ebo[o] = 0 /\ index_count[o] = 0
               ELSE /\ gens("GenBuffers") = 2 /\ ebo[o] # 0 /\ ebo[o] # vbo[o]
                    /\ lastOp.src.m.hi = 0 /\ index_count[o] = lastOp.src.m.lo

\* C6: update, draw, bind and set_drawing_mode leave the array-layout and
\* vertex-data handles as they were and neither allocate nor release a GL
\* name; the handles of a live drawable name resources that are in use.
C6_HandlesStable ==
    /\ [](\A o \in Drawables :
            Live(o) => (vao[o] \in gl.vaoNames /\ vbo[o] \in gl.bufNames))
    /\ [][lastOp'.op \in {"update", "draw", "bind", "set_drawing_mode"} =>
            /\ vao' = vao /\ vbo' = vbo
            /\ gl'.vaoNames = gl.vaoNames
            /\ gl'.bufNames = gl.bufNames
            /\ status' = status]_vars

\* C6's case: an update with an Indexed source while both drawables are live.
C6_Witness ==
    /\ lastOp.op = "update" /\ lastOp.src.kind = "Indexed"
    /\ \A o \in Drawables : Live(o)
    /\ ~failed

\* C7: a draw() whose program activation fails ends in a fatal failure
\* without a draw call; the activation is attempted right after the bind of
\* the object's array-layout resource and before any draw call.
C7_ActivationFailureIsFatal ==
    lastOp.op = "draw" =>
        LET o == lastOp.obj IN
        /\ Len(lastCalls) >= 2
        /\ lastCalls[1].f = "BindVertexArray"
        /\ lastCalls[1].a = vao[o] /\ gl.boundVao = vao[o]
        /\ lastCalls[2].f = "activate"
        /\ \A i \in DrawEntries : i > 2
        /\ ~lastOp.ok => (failed /\ DrawEntries = {})

\* C7's case: a draw of an indexed drawable whose activation failed.
C7_Witness ==
    /\ lastOp.op = "draw" /\ ~lastOp.ok
    /\ index_count[lastOp.obj] > 0
    /\ failed

\* C8: drawing_mode() is Triangles on a fresh drawable and otherwise the mode
\* of the latest set_drawing_mode, whatever was called in between;
\* set_drawing_mode makes no GL call and changes nothing but the topology.
C8_DrawingModeRoundTrip ==
    /\ [](\A o \in Drawables : Live(o) => DrawingModeOf(o) = lastSetMode[o])
    /\ []((lastOp.op = "new" /\ lastOp.ok) => DrawingModeOf(lastOp.obj) = "Triangles")
    /\ [][lastOp'.op = "set_drawing_mode" =>
            /\ drawing_mode'[lastOp'.obj] = lastOp'.mode
            /\ lastCalls' = <<>>
            /\ <<vao, vbo, ebo, index_count, gl, status, failed>>'
                 = <<vao, vbo, ebo, index_count, gl, status, failed>>
            /\ \A p \in Drawables \ {lastOp'.obj} : drawing_mode'[p] = drawing_mode[p]]_vars

\* C8's case: an update after set_drawing_mode(TrianglesStripAdjacency).
C8_Witness ==
    /\ lastOp.op = "update"
    /\ lastSetMode[lastOp.obj] = "TrianglesStripAdjacency"
    /\ DrawingModeOf(lastOp.obj) = "TrianglesStripAdjacency"

\* C9 (as claimed): a live drawable with a positive index count has an
\* index-data resource, so that no indexed draw call is issued for a drawable
\* that owns none.
C9_IndexCountImpliesEbo ==
    /\ \A o \in Drawables : (Live(o) /\ index_count[o] > 0) => ebo[o] # 0
    /\ (lastOp.op = "draw" /\ \E i \in DrawEntries : lastCalls[i].f = "DrawElements")
          => ebo[lastOp.obj] # 0

\* C10 (as claimed): no operation on one drawable changes the index buffer
\* attached to the array-layout resource of another live drawable, and an
\* indexed draw of a drawable reads its indices from that drawable's own
\* index-data resource.
C10_NoInterference ==
    [][/\ \A b \in Drawables :
            (Live(b) /\ Live(b)' /\ lastOp'.obj # b)
                => gl'.elemBuf[vao[b]] = gl.elemBuf[vao[b]]
       /\ \A i \in 1..Len(lastCalls') :
            (lastOp'.op = "draw" /\ lastCalls'[i].f = "DrawElements" /\ ebo[lastOp'.obj] # 0)
                => lastCalls'[i].res = ebo[lastOp'.obj]
    ]_vars

====
